---- MODULE Spec2Model ----
(***************************************************************************)
(* A model of src/src/osrmutils/osrmutils.py: the request builder `match`, *)
(* the single-window matcher `_mapmatch_custom` and the chunked matcher    *)
(* `mapmatch_custom`.                                                       *)
(*                                                                         *)
(* Conventions.  Python lists are TLA+ sequences; a Python index i is the  *)
(* TLA+ index i+1 and every index stored in the state (tp_idx, from_tp,    *)
(* query_idx, lower_idx ...) is the Python, 0-based one.  An optional      *)
(* value is the empty sequence (None / NaN / <NA>) or a one-element        *)
(* sequence holding the value.  A raised exception is the field `raised`   *)
(* of an outcome, "" when the function returned.                           *)
(***************************************************************************)
EXTENDS Integers, Sequences, FiniteSets, TLC

VARIABLES pc, arg, ret, n_waypoints, max_matching_size, supplied,
          query_idx, iteration, l_tp, l_rte, l_code, calls, result, response

vars == <<pc, arg, ret, n_waypoints, max_matching_size, supplied,
          query_idx, iteration, l_tp, l_rte, l_code, calls, result, response>>

chunkVars == <<n_waypoints, max_matching_size, supplied,
               query_idx, iteration, l_tp, l_rte, l_code, calls, result, response>>

(***************************************************************************)
(* Bounds of the model.                                                    *)
(***************************************************************************)
\* largest number of points of a chunked run
MaxPoints == 5
\* largest window size of a chunked run
MaxWindow == 3
\* largest number of points of a single-window or request-builder input
MaxWinPoints == 4
\* largest number of steps of a leg, and of coordinates of a step geometry
MaxSteps == 2
MaxGeom == 2

(***************************************************************************)
(* Python values.                                                          *)
(***************************************************************************)
None == <<>>
Some(x) == <<x>>
IsNone(o) == o = <<>>
Min(a, b) == IF a <= b THEN a ELSE b
Range(n) == 0 .. (n - 1)

\* L[lower:upper] for 0 <= lower, 0 <= upper: both ends are clamped to len(L)
Slice(L, lower, upper) ==
    LET lo == Min(lower, Len(L))
        hi == Min(upper, Len(L))
    IN  IF hi <= lo THEN <<>> ELSE SubSeq(L, lo + 1, hi)

\* L[lower:upper] if L is not None else None
SliceOpt(o, lower, upper) ==
    IF IsNone(o) THEN None ELSE Some(Slice(o[1], lower, upper))

RECURSIVE Flatten(_)
Flatten(ss) == IF ss = <<>> THEN <<>> ELSE Head(ss) \o Flatten(Tail(ss))

\* int(x): truncation toward zero; a number is held in tenths of a unit
IntTrunc(x) == IF x >= 0 THEN x \div 10 ELSE -((-x) \div 10)

(***************************************************************************)
(* match: the request builder.  The request string is held as its parts:   *)
(* the server, the version and profile segments of the path, the           *)
(* coordinate segment as the pieces "lon,lat" each followed by its         *)
(* separator, and the query parameters in the order they are written.      *)
(***************************************************************************)
\* formatted_lat_lon += '{},{};'.format(lon, lat), over zip(latitudes, longitudes)
FormatLatLon(latitudes, longitudes) ==
    [i \in 1 .. Min(Len(latitudes), Len(longitudes)) |->
        [lon |-> longitudes[i], lat |-> latitudes[i], sep |-> ";"]]

\* formatted_lat_lon[0:-1]: the final character, the last separator, is dropped
DropFinal(pieces) ==
    [i \in 1 .. Len(pieces) |->
        IF i = Len(pieces) THEN [pieces[i] EXCEPT !.sep = ""] ELSE pieces[i]]

\* ';'.join([str(i) for i in timestamps])
JoinStr(xs) == [i \in 1 .. Len(xs) |-> xs[i]]
\* ';'.join([str(int(i)) for i in bearings])
JoinInt(xs) == [i \in 1 .. Len(xs) |-> IntTrunc(xs[i])]

match(a) ==
    LET formatted_lat_lon == DropFinal(FormatLatLon(a.latitudes, a.longitudes))
        base == << <<"geometries", a.geometries>>, <<"steps", a.steps>>,
                   <<"overview", a.overview>>, <<"annotations", a.annotations>> >>
        ts == IF IsNone(a.timestamps) THEN <<>>
              ELSE << <<"timestamps", JoinStr(a.timestamps[1])>> >>
        be == IF IsNone(a.bearings) THEN <<>>
              ELSE << <<"bearings", JoinInt(a.bearings[1])>> >>
        ra == IF IsNone(a.radiuses) THEN <<>>
              ELSE << <<"radiuses", JoinInt(a.radiuses[1])>> >>
    IN  [server  |-> a.osrm_server,
         service |-> "match",
         version |-> a.version,
         profile |-> "someprofile",
         coords  |-> formatted_lat_lon,
         params  |-> base \o ts \o be \o ra]

\* the names of the query parameters of a request, and the value of one
ParamNames(req) == {req.params[i][1] : i \in 1 .. Len(req.params)}
ParamValue(req, name) ==
    LET i == CHOOSE j \in 1 .. Len(req.params) : req.params[j][1] = name
    IN  req.params[i][2]

(***************************************************************************)
(* The inputs of the model.  Point g of a trace (g its original, 0-based   *)
(* index) has its own latitude, longitude, timestamp, bearing and radius,  *)
(* so that a slice shows which points it holds.  Bearings and radiuses are *)
(* in tenths (a bearing of 90.7 degrees is 907).                           *)
(***************************************************************************)
LatOf(g) == 200 + g
LonOf(g) == 100 + g
TimeOf(g) == 1000 + 10 * g
BearingOf(g) == 907 + 10 * g
RadiusOf(g) == 55 + 10 * g

Latitudes(n) == [i \in 1 .. n |-> LatOf(i - 1)]
Longitudes(n) == [i \in 1 .. n |-> LonOf(i - 1)]
Timestamps(n) == [i \in 1 .. n |-> TimeOf(i - 1)]
Bearings(n) == [i \in 1 .. n |-> BearingOf(i - 1)]
Radiuses(n) == [i \in 1 .. n |-> RadiusOf(i - 1)]

\* which of the optional sequences the caller supplies
Supplied == [timestamps : BOOLEAN, bearings : BOOLEAN, radiuses : BOOLEAN]

MatchInputs ==
    { [osrm_server |-> "http://127.0.0.1:5000",
       latitudes   |-> Latitudes(n),
       longitudes  |-> Longitudes(n),
       timestamps  |-> IF s.timestamps THEN Some(Timestamps(n)) ELSE None,
       bearings    |-> IF s.bearings THEN Some(Bearings(n)) ELSE None,
       radiuses    |-> IF s.radiuses THEN Some(Radiuses(n)) ELSE None,
       steps       |-> o.steps,
       geometries  |-> o.geometries,
       annotations |-> o.annotations,
       overview    |-> o.overview,
       gaps        |-> o.gaps,
       tidy        |-> o.tidy,
       version     |-> o.version] :
      n \in 0 .. MaxWinPoints, s \in Supplied,
      o \in [steps : {"false", "true"}, geometries : {"polyline", "geojson"},
             annotations : {"false", "nodes"}, overview : {"simplified", "full"},
             gaps : {"split", "ignore"}, tidy : {"false", "true"},
             version : {"v1", "v2"}] }

\* the chunked matcher's variables, idle in the specifications of one function
ChunkIdle ==
    /\ n_waypoints = 0 /\ max_matching_size = 2
    /\ supplied = [timestamps |-> FALSE, bearings |-> FALSE, radiuses |-> FALSE]
    /\ query_idx = 0 /\ iteration = 0
    /\ l_tp = <<>> /\ l_rte = <<>> /\ l_code = <<>>
    /\ calls = <<>> /\ result = <<>> /\ response = <<>>

InitMatch ==
    /\ pc = "match"
    /\ arg \in MatchInputs
    /\ ret = <<>>
    /\ ChunkIdle

CallMatch ==
    /\ pc = "match"
    /\ ret' = match(arg)
    /\ pc' = "matched"
    /\ UNCHANGED <<arg, chunkVars>>

SpecMatch == InitMatch /\ [][CallMatch]_vars

(***************************************************************************)
(* _mapmatch_custom: the single-window matcher.                            *)
(***************************************************************************)
\* round(x, 3) of a distance held in millionths: the nearest thousand, a tie
\* going to the even one
Round3(x) ==
    LET q == x \div 1000
        r == x % 1000
    IN  IF r < 500 THEN q * 1000
        ELSE IF r > 500 THEN (q + 1) * 1000
        ELSE IF q % 2 = 0 THEN q * 1000 ELSE (q + 1) * 1000

\* d_tracepoint_index after the first k tracepoints: a later tracepoint with the
\* key of an earlier one replaces it
RECURSIVE d_tracepoint_index(_, _)
d_tracepoint_index(tracepoints, k) ==
    IF k = 0 THEN [key \in {} |-> 0]
    ELSE LET d == d_tracepoint_index(tracepoints, k - 1)
             tracepoint == tracepoints[k]
         IN  IF IsNone(tracepoint) THEN d
             ELSE (<<tracepoint[1].matchings_index, tracepoint[1].waypoint_index>>
                      :> (k - 1)) @@ d

\* the row appended to l_tp for the tracepoint of index tracepoint_idx
TracepointRow(a, tracepoint_idx, tracepoint) ==
    [tp_idx    |-> tracepoint_idx,
     lon       |-> a.longitudes[tracepoint_idx + 1],
     lat       |-> a.latitudes[tracepoint_idx + 1],
     snap_lon  |-> IF IsNone(tracepoint) THEN None
                   ELSE Some(tracepoint[1].location[1]),
     snap_lat  |-> IF IsNone(tracepoint) THEN None
                   ELSE Some(tracepoint[1].location[2]),
     timestamp |-> IF IsNone(a.timestamps) THEN None
                   ELSE Some(a.timestamps[1][tracepoint_idx + 1])]

\* the number of tracepoints the loop can index before a list runs out
Indexable(a) ==
    LET n == Min(Len(a.longitudes), Len(a.latitudes))
    IN  IF IsNone(a.timestamps) THEN n ELSE Min(n, Len(a.timestamps[1]))

\* (a variant of DedupKeep: a point is dropped when it occurred anywhere before)
DedupKeepAnywhere(coords, i) == \A k \in 1 .. (i - 1) : coords[k] # coords[i]

\* coords = [coords[i] for i in range(len(coords)) if (i==0) or coords[i] != coords[i-1]]
DedupKeep(coords, i) == (i = 1) \/ coords[i] # coords[i - 1]

Dedup(coords) ==
    LET keep == {i \in 1 .. Len(coords) : DedupKeep(coords, i)}
        F[i \in 0 .. Len(coords)] ==
            IF i = 0 THEN <<>>
            ELSE IF i \in keep THEN Append(F[i - 1], coords[i]) ELSE F[i - 1]
    IN  F[Len(coords)]

\* the coordinates of a leg, before the deduplication
StitchCoords(steps) ==
    Flatten([s \in 1 .. Len(steps) |-> steps[s].geometry.coordinates])
        \o << steps[Len(steps)].maneuver.location >>

LegCoords(steps) == Dedup(StitchCoords(steps))

\* node_pairs = [(nodes[i], nodes[i+1]) for i in range(len(nodes)-1)]
NodePairs(nodes) == [i \in 1 .. (Len(nodes) - 1) |-> <<nodes[i], nodes[i + 1]>>]

\* one pass of the leg loop: the exception it raises, or the row it appends
LegRow(d, route_idx, leg_idx, leg) ==
    LET from_key == <<route_idx, leg_idx>>
        to_key == <<route_idx, leg_idx + 1>>
        steps == leg.steps
        raised ==
            IF from_key \notin DOMAIN d \/ to_key \notin DOMAIN d THEN "KeyError"
            ELSE IF \E s \in 1 .. Len(steps) : steps[s].geometry.type # "LineString"
                 THEN "AssertionError"
            ELSE IF steps = <<>> THEN "IndexError"
            ELSE ""
    IN  IF raised # "" THEN [raised |-> raised, row |-> <<>>]
        ELSE [raised |-> "",
              row |-> << [from_tp    |-> d[from_key],
                          to_tp      |-> d[to_key],
                          route_idx  |-> route_idx,
                          leg_idx    |-> leg_idx,
                          node_pairs |-> NodePairs(leg.annotation.nodes),
                          distances  |-> [i \in 1 .. Len(leg.annotation.distance) |->
                                             Round3(leg.annotation.distance[i])],
                          coords     |-> LegCoords(steps)] >>]

\* the passes of the route and leg loops, in the order they are made
LegPasses(d, matchings) ==
    Flatten([r \in 1 .. Len(matchings) |->
                [p \in 1 .. Len(matchings[r].legs) |->
                    LegRow(d, r - 1, p - 1, matchings[r].legs[p])]])

\* pd.merge(df_rts_all, df_rte, on=['from_tp', 'to_tp'], how='left'): the rows
\* of the left table in order, each with every row of the right table (rte) of its
\* key, in the right table's order, or once with the right columns missing
LeftJoinRow(from_tp, rte) ==
    LET hits == SelectSeq(rte, LAMBDA x : x.from_tp = from_tp /\ x.to_tp = from_tp + 1)
    IN  IF hits = <<>>
        THEN << [from_tp |-> from_tp, to_tp |-> from_tp + 1, route_idx |-> None,
                 leg_idx |-> None, node_pairs |-> None, distances |-> None,
                 coords |-> None] >>
        ELSE [h \in 1 .. Len(hits) |->
                [from_tp |-> from_tp, to_tp |-> from_tp + 1,
                 route_idx |-> Some(hits[h].route_idx),
                 leg_idx |-> Some(hits[h].leg_idx),
                 node_pairs |-> Some(hits[h].node_pairs),
                 distances |-> Some(hits[h].distances),
                 coords |-> Some(hits[h].coords)]]

LeftJoin(n, rte) == Flatten([i \in 1 .. (n - 1) |-> LeftJoinRow(i - 1, rte)])

\* .fillna("").apply(list)
FillList(o) == IF IsNone(o) THEN <<>> ELSE o[1]

\* (a variant of RouteRow: matched read off the truth value of node_pairs)
RouteRowTruthy(j) ==
    [from_tp    |-> j.from_tp,
     to_tp      |-> j.to_tp,
     matched    |-> FillList(j.node_pairs) # <<>>,
     route_idx  |-> j.route_idx,
     leg_idx    |-> j.leg_idx,
     node_pairs |-> FillList(j.node_pairs),
     distances  |-> FillList(j.distances),
     coords     |-> FillList(j.coords)]

\* the columns computed after the merge
RouteRow(j) ==
    [from_tp    |-> j.from_tp,
     to_tp      |-> j.to_tp,
     matched    |-> ~IsNone(j.node_pairs),
     route_idx  |-> j.route_idx,
     leg_idx    |-> j.leg_idx,
     node_pairs |-> FillList(j.node_pairs),
     distances  |-> FillList(j.distances),
     coords     |-> FillList(j.coords)]

\* df_rte of an "Ok" window, or the exception of the merge: an empty l_rte
\* makes a table without columns, which has no key to merge on
Reconcile(n, rte) ==
    IF rte = <<>> THEN [raised |-> "KeyError", df_rte |-> None]
    ELSE LET joined == LeftJoin(n, rte)
         IN  [raised |-> "",
              df_rte |-> Some([i \in 1 .. Len(joined) |-> RouteRow(joined[i])])]

Raise(e, req) == [raised |-> e, df_tp |-> None, df_rte |-> None, code |-> "", request |-> req]

\* a: the arguments; resp: what the request of this window returns
_mapmatch_custom(a, resp) ==
    LET req == match([osrm_server |-> a.osrm_server, latitudes |-> a.latitudes,
                      longitudes |-> a.longitudes, timestamps |-> a.timestamps,
                      bearings |-> a.bearings, radiuses |-> a.radiuses,
                      steps |-> "true", geometries |-> "geojson",
                      annotations |-> "true", overview |-> "full",
                      gaps |-> "split", tidy |-> "false", version |-> "v1"])
        code == resp.code
        tracepoints == resp.tracepoints
    IN  IF code # "Ok"
        THEN [raised |-> "", df_tp |-> None, df_rte |-> None, code |-> code,
              request |-> req]
        ELSE IF Len(tracepoints) > Indexable(a) THEN Raise("IndexError", req)
        ELSE LET d == d_tracepoint_index(tracepoints, Len(tracepoints))
                 tp_rows == [i \in 1 .. Len(tracepoints) |->
                               TracepointRow(a, i - 1, tracepoints[i])]
                 passes == LegPasses(d, resp.matchings)
                 bad == {i \in 1 .. Len(passes) : passes[i].raised # ""}
             IN  IF bad # {}
                 THEN Raise(passes[CHOOSE i \in bad : \A j \in bad : i <= j].raised, req)
                 ELSE LET rec == Reconcile(Len(a.latitudes),
                                           Flatten([i \in 1 .. Len(passes) |-> passes[i].row]))
                      IN  IF rec.raised # "" THEN Raise(rec.raised, req)
                          ELSE [raised |-> "", df_tp |-> Some(tp_rows),
                                df_rte |-> rec.df_rte, code |-> code, request |-> req]

(***************************************************************************)
(* The responses of the service.  A leg is one of a few shapes: "plain"    *)
(* (nodes, distances, two steps whose geometries repeat the points they    *)
(* share), "bare" (no node, no distance, one step with an empty geometry), *)
(* "badtype" (a step whose geometry is no LineString) and "nosteps".       *)
(***************************************************************************)
LegShapes == {"plain", "bare", "badtype", "nosteps"}

Step(type, coordinates, location) ==
    [geometry |-> [type |-> type, coordinates |-> coordinates],
     maneuver |-> [location |-> location]]

\* the leg of shape v at position p of matching r
LegOf(v, r, p) ==
    LET A == <<10 * r + p, 50>>
        B == <<10 * r + p + 1, 51>>
        C == <<10 * r + p + 2, 52>>
        nodes == [i \in 1 .. (2 + p) |-> 100 * r + 10 * p + i]
        distance == [i \in 1 .. (1 + p) |-> 12345170 + 500 * i]
    IN  CASE v = "plain" ->
               [annotation |-> [nodes |-> nodes, distance |-> distance],
                steps |-> << Step("LineString", <<A, A, B>>, A),
                             Step("LineString", <<B, B>>, C) >>]
          [] v = "bare" ->
               [annotation |-> [nodes |-> <<>>, distance |-> <<>>],
                steps |-> << Step("LineString", <<>>, A) >>]
          [] v = "badtype" ->
               [annotation |-> [nodes |-> nodes, distance |-> distance],
                steps |-> << Step("LineString", <<A, B>>, A),
                             Step("Point", <<B>>, C) >>]
          [] OTHER ->
               [annotation |-> [nodes |-> nodes, distance |-> distance],
                steps |-> <<>>]

\* a present tracepoint record: waypoint w of matching r, snapped somewhere
Tracepoint(r, w) ==
    Some([matchings_index |-> r, waypoint_index |-> w,
          location |-> <<500 + 10 * r + w, 600 + 10 * r + w>>])

\* the matchings with the given numbers of legs, every leg of shape v
Matchings(v, legCounts) ==
    [r \in 1 .. Len(legCounts) |->
        [legs |-> [p \in 1 .. legCounts[r] |-> LegOf(v, r - 1, p - 1)]]]

SeqsUpTo(S, lo, hi) == UNION {[1 .. k -> S] : k \in lo .. hi}

NotOk == [code |-> "NoMatch", tracepoints |-> <<>>, matchings |-> <<>>]

\* the sequences of distinct point indices of a window of n points: the points
\* the service matched, in the order the matchings visit them
Orders(n) ==
    {o \in SeqsUpTo(Range(n), 0, n) : \A i, j \in 1 .. Len(o) : o[i] = o[j] => i = j}

\* The response in which the first `cut` points of `order` are the waypoints of
\* matching 0 and the others those of matching 1; a matching of k waypoints has
\* k - 1 legs.  Every other point has a null tracepoint.
Waypoint(order, cut, j) == IF j <= cut THEN <<0, j - 1>> ELSE <<1, j - cut - 1>>

OrderTracepoints(n, order, cut) ==
    [i \in 1 .. n |->
        IF \E j \in 1 .. Len(order) : order[j] = i - 1
        THEN LET j == CHOOSE k \in 1 .. Len(order) : order[k] = i - 1
             IN  Tracepoint(Waypoint(order, cut, j)[1], Waypoint(order, cut, j)[2])
        ELSE None]

OrderLegCounts(order, cut) ==
    IF order = <<>> THEN <<>>
    ELSE IF cut >= Len(order) THEN << Len(order) - 1 >>
    ELSE << cut - 1, Len(order) - cut - 1 >>

\* how a response departs from that: in the shape of its legs, or
\*   "short":   the last tracepoint record is missing
\*   "long":    one null record too many
\*   "nolegs":  no matching at all
\*   "samekey": the first point outside `order` carries the key of its first
\*              waypoint as well
Variants == LegShapes \cup {"short", "long", "nolegs", "samekey"}

VariantTracepoints(n, order, cut, v) ==
    LET tps == OrderTracepoints(n, order, cut)
        out == {i \in 1 .. n : \A j \in 1 .. Len(order) : order[j] # i - 1}
    IN  CASE v = "short" -> SubSeq(tps, 1, Len(tps) - 1)
          [] v = "long" -> Append(tps, None)
          [] v = "samekey" /\ out # {} /\ order # <<>> ->
               [tps EXCEPT ![CHOOSE i \in out : \A k \in out : i <= k] =
                               Tracepoint(0, 0)]
          [] OTHER -> tps

Response(n, order, cut, v) ==
    [code        |-> "Ok",
     tracepoints |-> VariantTracepoints(n, order, cut, v),
     matchings   |-> IF v = "nolegs" THEN <<>>
                     ELSE Matchings(IF v \in LegShapes THEN v ELSE "plain",
                                    OrderLegCounts(order, cut))]

\* the responses to the request of a single window of n points
WinResponses(n) ==
    {NotOk} \cup
    {Response(n, o[1], o[2], v) :
        o \in {<<order, cut>> \in Orders(n) \X (1 .. (IF n = 0 THEN 1 ELSE n)) :
                  cut <= IF order = <<>> THEN 1 ELSE Len(order)},
        v \in Variants}

\* the arguments of a call for the points lower .. upper - 1 of a trace
Args(lower, upper, s) ==
    [osrm_server |-> "http://127.0.0.1:5000",
     latitudes   |-> [i \in 1 .. (upper - lower) |-> LatOf(lower + i - 1)],
     longitudes  |-> [i \in 1 .. (upper - lower) |-> LonOf(lower + i - 1)],
     timestamps  |-> IF s.timestamps
                     THEN Some([i \in 1 .. (upper - lower) |-> TimeOf(lower + i - 1)])
                     ELSE None,
     bearings    |-> IF s.bearings
                     THEN Some([i \in 1 .. (upper - lower) |-> BearingOf(lower + i - 1)])
                     ELSE None,
     radiuses    |-> IF s.radiuses
                     THEN Some([i \in 1 .. (upper - lower) |-> RadiusOf(lower + i - 1)])
                     ELSE None]

InitWindow ==
    /\ pc = "window"
    /\ \E n \in 0 .. MaxWinPoints, ts \in BOOLEAN :
          arg = Args(0, n, [timestamps |-> ts, bearings |-> FALSE, radiuses |-> FALSE])
    /\ ret = <<>>
    /\ ChunkIdle

CallWindow ==
    /\ pc = "window"
    /\ \E resp \in WinResponses(Len(arg.latitudes)) :
          ret' = [resp |-> resp, out |-> _mapmatch_custom(arg, resp)]
    /\ pc' = "windowed"
    /\ UNCHANGED <<arg, chunkVars>>

SpecWindow == InitWindow /\ [][CallWindow]_vars

(***************************************************************************)
(* mapmatch_custom: the chunked matcher.  `calls` is the history of the    *)
(* calls it made to _mapmatch_custom: the bounds of each window, the       *)
(* arguments passed, the response to its request and the exception it      *)
(* raised, if any; `response` is the answer to the request in flight.      *)
(* pc is "loop" at the head of the while loop, "request" while the request *)
(* of a window is with the service, "concat" after the break, "done" after *)
(* the return and "raised" when an exception of a window left the          *)
(* function.                                                               *)
(***************************************************************************)
RECURSIVE SortedSeq(_)
SortedSeq(S) ==
    IF S = {} THEN <<>>
    ELSE LET m == CHOOSE x \in S : \A y \in S : x <= y
         IN  <<m>> \o SortedSeq(S \ {m})

\* a response to the request of one window of a chunked run: one matching
\* through the points S of the window, in increasing order
ChunkResponse(n, S, v) == Response(n, SortedSeq(S), n + 1, v)

\* the arguments of the whole call
Whole ==
    Args(0, n_waypoints, supplied)

\* _df.insert(0, 'query_idx', query_idx)
InsertQueryIdx(df, k) ==
    [i \in 1 .. Len(df) |-> [query_idx |-> k] @@ df[i]]

\* pd.concat(l).reset_index(drop=True) if len(l) > 0 else None
Concat(l) == IF Len(l) > 0 THEN Some(Flatten(l)) ELSE None

InitChunk ==
    /\ pc = "loop"
    /\ arg = <<>>
    /\ ret = <<>>
    /\ n_waypoints \in 0 .. MaxPoints
    /\ max_matching_size \in 2 .. MaxWindow
    /\ supplied \in Supplied
    /\ query_idx = 0
    /\ iteration = 0
    /\ l_tp = <<>>
    /\ l_rte = <<>>
    /\ l_code = <<>>
    /\ calls = <<>>
    /\ result = <<>>
    /\ response = <<>>

\* (a variant of lower_idx: the windows do not overlap)
lower_idx_no_overlap(k) == k * max_matching_size

\* the window of index k: lower_idx and upper_idx
lower_idx(k) == k * (max_matching_size - 1)

\* (a variant of upper_idx: the window is one point short)
upper_idx_short(k) == Min(k * (max_matching_size - 1) + max_matching_size - 1, n_waypoints)

upper_idx(k) == Min(lower_idx(k) + max_matching_size, n_waypoints)

\* (a variant of AppendCode: only the code of a window that succeeded is kept)
AppendCodeOk(codes, code) == IF code = "Ok" THEN Append(codes, code) ELSE codes

\* l_code.append(code)
AppendCode(codes, code) == Append(codes, code)

\* (a variant of LoopExit: the loop ends once the last point but one is reached)
LoopExitEarly(upper) == upper >= n_waypoints - 1

\* if upper_idx == n_waypoints: break
LoopExit(upper) == upper = n_waypoints

\* the arguments of the call for the window of index k
WindowArgs(k) ==
    [osrm_server |-> Whole.osrm_server,
     latitudes   |-> Slice(Whole.latitudes, lower_idx(k), upper_idx(k)),
     longitudes  |-> Slice(Whole.longitudes, lower_idx(k), upper_idx(k)),
     timestamps  |-> SliceOpt(Whole.timestamps, lower_idx(k), upper_idx(k)),
     bearings    |-> SliceOpt(Whole.bearings, lower_idx(k), upper_idx(k)),
     radiuses    |-> SliceOpt(Whole.radiuses, lower_idx(k), upper_idx(k))]

\* The head of a pass of the while loop, down to the request of the window:
\* the slices are taken, _mapmatch_custom is called and match sends the
\* request, to which the service answers with `response`.
Request ==
    /\ pc = "loop"
    /\ LET n == upper_idx(query_idx) - lower_idx(query_idx)
       IN  \/ response' = Some(NotOk)
           \/ \E S \in SUBSET Range(n), v \in Variants :
                 response' = Some(ChunkResponse(n, S, v))
    /\ pc' = "request"
    /\ UNCHANGED <<arg, ret, n_waypoints, max_matching_size, supplied, query_idx,
                   iteration, l_tp, l_rte, l_code, calls, result>>

\* The rest of the pass: the response is turned into the tables of the window,
\* which are accumulated, and the loop ends or goes on.
Window ==
    /\ pc = "request"
    /\ LET a == WindowArgs(query_idx)
           out == _mapmatch_custom(a, response[1])
       IN  /\ calls' = Append(calls, [lower_idx |-> lower_idx(query_idx),
                                      upper_idx |-> upper_idx(query_idx),
                                      args |-> a, request |-> out.request,
                                      response |-> response[1],
                                      raised |-> out.raised])
           /\ IF out.raised # ""
              THEN /\ pc' = "raised"
                   /\ UNCHANGED <<l_code, l_tp, l_rte, query_idx, iteration>>
              ELSE /\ l_code' = AppendCode(l_code, out.code)
                   /\ IF out.code = "Ok"
                      THEN /\ l_tp' = Append(l_tp, InsertQueryIdx(out.df_tp[1], query_idx))
                           /\ l_rte' = Append(l_rte, InsertQueryIdx(out.df_rte[1], query_idx))
                      ELSE UNCHANGED <<l_tp, l_rte>>
                   /\ IF LoopExit(upper_idx(query_idx))
                      THEN /\ pc' = "concat"
                           /\ UNCHANGED <<query_idx, iteration>>
                      ELSE /\ pc' = "loop"
                           /\ query_idx' = query_idx + 1
                           /\ iteration' = iteration + 1
    /\ UNCHANGED <<arg, ret, n_waypoints, max_matching_size, supplied, result, response>>

\* the statements after the loop
Return ==
    /\ pc = "concat"
    /\ result' = Some([df_tp |-> Concat(l_tp), df_rte |-> Concat(l_rte), l_code |-> l_code])
    /\ pc' = "done"
    /\ UNCHANGED <<arg, ret, n_waypoints, max_matching_size, supplied, query_idx,
                   iteration, l_tp, l_rte, l_code, calls, response>>

Next == Request \/ Window \/ Return

Spec == InitChunk /\ [][Next]_vars

\* Every window's request returns and the interpreter keeps running: no
\* action that can be taken is put off for ever.  Window can be taken exactly
\* when pc = "request" and a step of it leaves that position, so that
\* WF_vars(Window) is []<>(pc # "request"), the form it is given here.
FairSpec ==
    Spec /\ WF_vars(Request) /\ WF_vars(Return) /\ []<>(pc # "request")

(***************************************************************************)
(* The coordinates of a leg, on their own: the steps of a leg are drawn    *)
(* from the geometries over three points.  Only the last step's maneuver   *)
(* location is read.                                                       *)
(***************************************************************************)
Points == {<<0, 0>>, <<1, 1>>, <<2, 2>>}

LegSteps ==
    {[s \in 1 .. Len(g) |-> Step("LineString", g[s], IF s = Len(g) THEN m ELSE <<0, 0>>)] :
        g \in SeqsUpTo(SeqsUpTo(Points, 0, MaxGeom), 1, MaxSteps), m \in Points}

InitCoords ==
    /\ pc = "coords"
    /\ arg \in LegSteps
    /\ ret = <<>>
    /\ ChunkIdle

CallCoords ==
    /\ pc = "coords"
    /\ ret' = [stitched |-> StitchCoords(arg), coords |-> LegCoords(arg)]
    /\ pc' = "stitched"
    /\ UNCHANGED <<arg, chunkVars>>

SpecCoords == InitCoords /\ [][CallCoords]_vars

(***************************************************************************)
(* Properties.                                                             *)
(***************************************************************************)
RECURSIVE SumSeq(_)
SumSeq(xs) == IF xs = <<>> THEN 0 ELSE Head(xs) + SumSeq(Tail(xs))

Last(xs) == xs[Len(xs)]
SeqRange(xs) == {xs[i] : i \in 1 .. Len(xs)}

\* a call receives the points of original indices lo .. hi - 1, with those of
\* the optional sequences that were supplied
CallReceives(c, lo, hi) ==
    /\ c.args.latitudes = [i \in 1 .. (hi - lo) |-> LatOf(lo + i - 1)]
    /\ c.args.longitudes = [i \in 1 .. (hi - lo) |-> LonOf(lo + i - 1)]
    /\ c.args.timestamps =
         IF supplied.timestamps THEN Some([i \in 1 .. (hi - lo) |-> TimeOf(lo + i - 1)])
         ELSE None
    /\ c.args.bearings =
         IF supplied.bearings THEN Some([i \in 1 .. (hi - lo) |-> BearingOf(lo + i - 1)])
         ELSE None
    /\ c.args.radiuses =
         IF supplied.radiuses THEN Some([i \in 1 .. (hi - lo) |-> RadiusOf(lo + i - 1)])
         ELSE None

\* C1: for N >= 2 and W >= 2 the k-th call to the single-window matcher receives
\* exactly the points of original indices k(W-1) .. min(k(W-1)+W, N) - 1, its
\* timestamps, bearings and radiuses (when supplied) being those of the same
\* indices, and two consecutive windows share exactly one point: the last of
\* the one is the first of the other.
C1_WindowRanges ==
    n_waypoints >= 2 =>
      \A k \in 1 .. Len(calls) :
        LET lo == (k - 1) * (max_matching_size - 1)
            hi == Min(lo + max_matching_size, n_waypoints)
        IN  /\ CallReceives(calls[k], lo, hi)
            /\ k < Len(calls) =>
                 /\ Last(calls[k].args.latitudes) = Head(calls[k + 1].args.latitudes)
                 /\ Last(calls[k].args.longitudes) = Head(calls[k + 1].args.longitudes)
                 /\ Cardinality(SeqRange(calls[k].args.latitudes)
                                  \cap SeqRange(calls[k + 1].args.latitudes)) = 1

\* two windows of three points requested, every optional sequence supplied
C1_Witness ==
    /\ n_waypoints = 5 /\ max_matching_size = 3 /\ Len(calls) = 2
    /\ supplied.timestamps /\ supplied.bearings /\ supplied.radiuses
    /\ calls[2].args.latitudes = <<LatOf(2), LatOf(3), LatOf(4)>>

\* the loop has ended: by the break, or by an exception of a window
Ended == pc \in {"concat", "done", "raised"}

\* C2: for N >= 0 and W >= 2 the windowing loop terminates; no window but the
\* last requested has its upper bound at N or fewer than W points, and when the
\* loop ends by its break the last window requested has its upper bound at N.
\* (A run an exception of a window abandons ends too, at that window.)
C2_LoopTerminates ==
    /\ <>Ended
    /\ [](\A k \in 1 .. Len(calls) :
            /\ k < Len(calls) =>
                 /\ calls[k].upper_idx < n_waypoints
                 /\ Len(calls[k].args.latitudes) = max_matching_size
            /\ Len(calls[k].args.latitudes) <= max_matching_size)
    /\ [](pc \in {"concat", "done"} =>
            /\ calls # <<>>
            /\ Last(calls).upper_idx = n_waypoints)
    /\ [](pc \in {"loop", "request"} /\ calls # <<>> =>
            Last(calls).upper_idx < n_waypoints)

\* a run of two windows that returned, the last one of fewer than W points
C2_Witness ==
    /\ pc = "done" /\ Len(calls) = 2
    /\ Len(calls[2].args.latitudes) < max_matching_size

(***************************************************************************)
(* What a response says, read off the response itself.                     *)
(***************************************************************************)
\* the points (0-based) whose tracepoint record is present with this key
KeyPoints(resp, key) ==
    {i - 1 : i \in {j \in 1 .. Len(resp.tracepoints) :
                      /\ resp.tracepoints[j] # None
                      /\ resp.tracepoints[j][1].matchings_index = key[1]
                      /\ resp.tracepoints[j][1].waypoint_index = key[2]}}

SetMax(S) == CHOOSE x \in S : \A y \in S : y <= x

\* the legs of a response: (matching, position) pairs
Legs(resp) ==
    UNION {{<<r - 1, p - 1>> : p \in 1 .. Len(resp.matchings[r].legs)} :
              r \in 1 .. Len(resp.matchings)}

LegResolves(resp, rp) ==
    /\ KeyPoints(resp, rp) # {}
    /\ KeyPoints(resp, <<rp[1], rp[2] + 1>>) # {}

\* the pair of point indices a leg resolves to, the last record of a key winning
LegPair(resp, rp) ==
    << SetMax(KeyPoints(resp, rp)), SetMax(KeyPoints(resp, <<rp[1], rp[2] + 1>>)) >>

LegSound(resp, rp) ==
    LET steps == resp.matchings[rp[1] + 1].legs[rp[2] + 1].steps
    IN  /\ steps # <<>>
        /\ \A s \in 1 .. Len(steps) : steps[s].geometry.type = "LineString"

\* an "Ok" response that keeps to the schema: every leg resolves and has
\* line geometries
WellFormed(resp) ==
    /\ resp.code = "Ok"
    /\ \A rp \in Legs(resp) : LegResolves(resp, rp) /\ LegSound(resp, rp)

\* the rows of a route table are the pairs (i, i+1), i in 0 .. n-2, each once
Exhaustive(df_rte, n) ==
    /\ Len(df_rte) = n - 1
    /\ \A i \in 0 .. (n - 2) :
         Cardinality({j \in 1 .. Len(df_rte) :
                        df_rte[j].from_tp = i /\ df_rte[j].to_tp = i + 1}) = 1
    /\ \A j \in 1 .. Len(df_rte) :
         df_rte[j].from_tp \in 0 .. (n - 2) /\ df_rte[j].to_tp = df_rte[j].from_tp + 1

\* C3: for a window of N points whose response has code "Ok", whatever legs the
\* response holds (none at all included), _mapmatch_custom returns a route
\* table of exactly N-1 rows, the pairs (i, i+1), each once.
C3_RouteTableExhaustive ==
    (/\ pc = "windowed"
     /\ Len(arg.latitudes) >= 2
     /\ WellFormed(ret.resp)
     /\ Len(ret.resp.tracepoints) = Len(arg.latitudes))
    => /\ ret.out.raised = ""
       /\ ret.out.df_rte # None
       /\ Exhaustive(ret.out.df_rte[1], Len(arg.latitudes))

Returned == SelectSeq(calls, LAMBDA c : c.raised = "")
ReturnedOk == SelectSeq(calls, LAMBDA c : c.raised = "" /\ c.response.code = "Ok")
AllTagged(df, k) == \A i \in 1 .. Len(df) : df[i].query_idx = k

\* C5: a window whose status code is not "Ok" raises nothing, adds no table,
\* has its code appended to the status list, and the windows after it are
\* requested all the same; the status list holds one code per window that
\* returned, in window order; after the call it is the list returned, and if
\* every window failed both tables are absent.
C5_FailedWindows ==
    /\ \A k \in 1 .. Len(calls) : calls[k].response.code # "Ok" => calls[k].raised = ""
    /\ Len(l_code) = Len(Returned)
    /\ \A k \in 1 .. Len(l_code) : l_code[k] = Returned[k].response.code
    /\ Len(l_tp) = Len(ReturnedOk)
    /\ Len(l_rte) = Len(ReturnedOk)
    /\ \A i \in 1 .. Len(ReturnedOk) :
         LET k == ReturnedOk[i].lower_idx \div (max_matching_size - 1)
         IN  AllTagged(l_tp[i], k) /\ AllTagged(l_rte[i], k)
    /\ pc \in {"concat", "done"} =>
         /\ Len(l_code) = Len(calls)
         /\ Last(calls).upper_idx = n_waypoints
    /\ pc = "done" =>
         /\ result[1].l_code = l_code
         /\ (\A k \in 1 .. Len(l_code) : l_code[k] # "Ok") =>
              (result[1].df_tp = None /\ result[1].df_rte = None)

\* a finished run whose first window failed and whose second did not
C5_Witness ==
    /\ pc = "done" /\ Len(l_code) >= 2
    /\ l_code[1] = "NoMatch" /\ l_code[2] = "Ok"
    /\ result[1].df_tp # None

\* the tables of the window of a call, its rows tagged with the window index
WindowTable(c, k, which) ==
    LET out == _mapmatch_custom(c.args, c.response)
        df == IF which = "tp" THEN out.df_tp[1] ELSE out.df_rte[1]
    IN  [i \in 1 .. Len(df) |-> [query_idx |-> k] @@ df[i]]

TablesOfOk(which) ==
    Flatten([k \in 1 .. Len(calls) |->
                IF calls[k].response.code = "Ok"
                THEN WindowTable(calls[k], k - 1, which) ELSE <<>>])

C7_TracepointRows ==
    (pc = "windowed" /\ ret.out.raised = "" /\ ret.out.code = "Ok") =>
      LET df_tp == ret.out.df_tp[1]
          tps == ret.resp.tracepoints
      IN  /\ Len(df_tp) = Len(arg.latitudes)
          /\ \A i \in 1 .. Len(df_tp) :
               /\ df_tp[i].tp_idx = i - 1
               /\ df_tp[i].lon = arg.longitudes[i]
               /\ df_tp[i].lat = arg.latitudes[i]
               /\ (df_tp[i].snap_lon # None) <=> (i <= Len(tps) /\ tps[i] # None)
               /\ (df_tp[i].snap_lat # None) <=> (i <= Len(tps) /\ tps[i] # None)
               /\ IF arg.timestamps = None THEN df_tp[i].timestamp = None
                  ELSE df_tp[i].timestamp = Some(arg.timestamps[1][i])

\* C8: the request of match carries every option with the value passed: steps,
\* geometries, annotations, overview, gaps and tidy as query parameters, the
\* version in the path; the path lists the points in input order as
\* "longitude,latitude" pairs; timestamps, bearings and radiuses are parameters
\* exactly when the sequence was supplied.
C8_RequestEncodesOptions ==
    pc = "matched" =>
      /\ \A o \in {"steps", "geometries", "annotations", "overview", "gaps", "tidy"} :
           o \in ParamNames(ret)
      /\ ParamValue(ret, "steps") = arg.steps
      /\ ParamValue(ret, "geometries") = arg.geometries
      /\ ParamValue(ret, "annotations") = arg.annotations
      /\ ParamValue(ret, "overview") = arg.overview
      /\ ParamValue(ret, "gaps") = arg.gaps
      /\ ParamValue(ret, "tidy") = arg.tidy
      /\ ret.version = arg.version
      /\ Len(ret.coords) = Len(arg.latitudes)
      /\ \A i \in 1 .. Len(ret.coords) :
           ret.coords[i].lon = arg.longitudes[i] /\ ret.coords[i].lat = arg.latitudes[i]
      /\ ("timestamps" \in ParamNames(ret)) <=> (arg.timestamps # None)
      /\ ("bearings" \in ParamNames(ret)) <=> (arg.bearings # None)
      /\ ("radiuses" \in ParamNames(ret)) <=> (arg.radiuses # None)

\* path is r with every point repeated one or more times on the spot
RECURSIVE Stutters(_, _)
Stutters(path, r) ==
    IF path = <<>> THEN r = <<>>
    ELSE /\ r # <<>>
         /\ Head(path) = Head(r)
         /\ \/ Stutters(Tail(path), Tail(r))
            \/ Tail(path) # <<>> /\ Head(Tail(path)) = Head(r) /\ Stutters(Tail(path), r)

NoRepeat(r) == \A i \in 1 .. (Len(r) - 1) : r[i] # r[i + 1]

\* the position in the stitched path of coordinate i of step s
Offset(steps, s) == SumSeq([t \in 1 .. (s - 1) |-> Len(steps[t].geometry.coordinates)])

\* C9: the coordinates of a leg are the coordinates of its steps' geometries, in
\* step order, then the last step's maneuver location, deduplicated; the result
\* keeps the first point, holds the first point of every maximal run of equal
\* consecutive points, in order, so that no two neighbours are equal, and
\* deduplicating it again changes nothing.
C9_LegCoords ==
    pc = "stitched" =>
      /\ Len(ret.stitched) = Offset(arg, Len(arg) + 1) + 1
      /\ \A s \in 1 .. Len(arg) : \A i \in 1 .. Len(arg[s].geometry.coordinates) :
           ret.stitched[Offset(arg, s) + i] = arg[s].geometry.coordinates[i]
      /\ Last(ret.stitched) = arg[Len(arg)].maneuver.location
      /\ ret.coords[1] = ret.stitched[1]
      /\ NoRepeat(ret.coords)
      /\ Stutters(ret.stitched, ret.coords)
      /\ Dedup(ret.coords) = ret.coords

\* a path with two repeated points: (0,0) twice, (1,1) twice, then (2,2)
C9_Witness ==
    /\ pc = "stitched"
    /\ ret.stitched = << <<0, 0>>, <<0, 0>>, <<1, 1>>, <<1, 1>>, <<2, 2>> >>
    /\ ret.coords = << <<0, 0>>, <<1, 1>>, <<2, 2>> >>

\* the windows of which the points g and g+1 are a consecutive local pair
WindowsOfPair(g) ==
    {k \in 1 .. Len(calls) : calls[k].lower_idx <= g /\ g + 1 < calls[k].upper_idx}

\* the pairs of original indices of the rows of the route tables accumulated
RoutePairs ==
    Flatten([i \in 1 .. Len(l_rte) |->
                [j \in 1 .. Len(l_rte[i]) |->
                    << l_rte[i][j].query_idx * (max_matching_size - 1) + l_rte[i][j].from_tp,
                       l_rte[i][j].query_idx * (max_matching_size - 1) + l_rte[i][j].to_tp >>]])

\* C10: for N >= 2 and W >= 2 every window holds two points or more and, once
\* the loop has ended by its break, every pair (g, g+1) of original indices,
\* 0 <= g <= N-2, is a consecutive local pair of exactly one window; a run whose
\* windows all returned "Ok" has N-1 route rows, one for each pair.
C10_PairsCovered ==
    n_waypoints >= 2 =>
      /\ \A k \in 1 .. Len(calls) : Len(calls[k].args.latitudes) >= 2
      /\ pc \in {"concat", "done"} =>
           /\ \A g \in 0 .. (n_waypoints - 2) : Cardinality(WindowsOfPair(g)) = 1
           /\ (\A k \in 1 .. Len(l_code) : l_code[k] = "Ok") =>
                /\ Len(RoutePairs) = n_waypoints - 1
                /\ \A g \in 0 .. (n_waypoints - 2) :
                     Cardinality({j \in 1 .. Len(RoutePairs) :
                                    RoutePairs[j] = <<g, g + 1>>}) = 1
      /\ pc = "done" /\ (\A k \in 1 .. Len(l_code) : l_code[k] = "Ok") =>
           Len(result[1].df_rte[1]) = n_waypoints - 1

\* two windows of three points over five, both "Ok": the pair (2, 3) follows
\* the point the windows share
C10_Witness ==
    /\ pc = "done" /\ n_waypoints = 5 /\ max_matching_size = 3
    /\ l_code = <<"Ok", "Ok">>
    /\ Len(result[1].df_rte[1]) = 4

====
